---- MODULE Spec2Model ----
(***************************************************************************)
(* A model of lsstUtils.py: the display helpers (display2dArray,           *)
(* displayImage, displayImages, displayMaskedImage, displayExposure,       *)
(* displayCutouts), the catalog helpers (makeHeavyCatalog, searchCatalog,  *)
(* getHeavyFootprintSubimage) and the contrast estimator zscale.           *)
(*                                                                         *)
(* Every function of the module is a synchronous call, so every action is  *)
(* one whole call.  The only state that outlives a call is the catalog     *)
(* (the footprints its records hold); the variables call, ret, out and fig *)
(* record the last call, what it returned, what it printed and what it     *)
(* asked of the plotting backend.                                          *)
(*                                                                         *)
(* Collaborator objects (images, exposures, footprints) are modelled by    *)
(* what the module reads of them: a bounding box and the number of valid   *)
(* (non-NaN) samples of an array.  Coordinates passed to searchCatalog are *)
(* kept in half-pixel units so that int(x) is a real truncation.           *)
(***************************************************************************)
EXTENDS Integers, Sequences, FiniteSets, TLC

VARIABLES catalog,   \* the catalog: a sequence of records [id, fp]
          nextFp,    \* identity of the next footprint object constructed
          call,      \* the last call: [op, ...arguments...]
          ret,       \* what the last call returned: [kind, ...]
          out,       \* the lines the last call printed
          fig,       \* what the last call asked of the plotting backend
          zin,       \* zscale: the (flattened) input array and the contrast
          zout       \* zscale: the outcome of the last zscale call

vars == <<catalog, nextFp, call, ret, out, fig, zin, zout>>

---------------------------------------------------------------------------
(* Bounds of the model *)

MaxCat == 2          \* records in a catalog
MaxLen == 10         \* samples in a zscale input

\* The exposures a caller may pass, by name; NoExposure is Python's None
\* passed for posImage or negImage.
Exposures == {"expA", "expB"}
NoExposure == "None"

None == [kind |-> "None"]

---------------------------------------------------------------------------
(* Geometry: an integer bounding box with inclusive corners, as the        *)
(* footprint's getBBox() hands out.                                        *)

Box(x0, x1, y0, y1) == [minX |-> x0, maxX |-> x1, minY |-> y0, maxY |-> y1]

Area(b) == (b.maxX - b.minX + 1) * (b.maxY - b.minY + 1)

\* (bbox.getBeginX(), bbox.getEndX(), bbox.getBeginY(), bbox.getEndY())
extentOf(b) == <<b.minX, b.maxX + 1, b.minY, b.maxY + 1>>

\* bbox.grow(n): a margin of n pixels on every side
grow(b, n) == Box(b.minX - n, b.maxX + n, b.minY - n, b.maxY + n)

\* The footprints a catalog may hold: a bounding box and the number of
\* pixels of the (irregular) region inside it.
Shapes ==
    { [bbox |-> Box(0, 2, 0, 2), npix |-> 9],
      [bbox |-> Box(0, 3, 0, 3), npix |-> 12],
      [bbox |-> Box(3, 5, 1, 4), npix |-> 9] }

\* Query coordinates, in half pixels: 1 is x = 0.5, 5 is x = 2.5.
HalfX == {1, 4, 5, 7}
HalfY == {2, 7}

\* int(x) of Python: truncation towards zero (x in half pixels).
int(h) == IF h >= 0 THEN h \div 2 ELSE -((-h) \div 2)

\* bbox.contains(Point2D(x, y)): the point itself
containsPoint2D(b, hx, hy) ==
    /\ 2 * b.minX <= hx /\ hx <= 2 * b.maxX
    /\ 2 * b.minY <= hy /\ hy <= 2 * b.maxY

\* bbox.contains(Point2I(px, py))
containsPoint2I(b, px, py) ==
    /\ b.minX <= px /\ px <= b.maxX
    /\ b.minY <= py /\ py <= b.maxY

---------------------------------------------------------------------------
(* zscale's trim, by length.  Python's samples[a:b] with its negative and  *)
(* out-of-range indices: a negative index counts from the end, and -0 is 0.*)

pyIndex(k, n) == IF k < 0 THEN (IF n + k < 0 THEN 0 ELSE n + k)
                 ELSE (IF k > n THEN n ELSE k)

\* len(samples[a:b]) for len(samples) = n
pySliceLen(n, a, b) ==
    IF pyIndex(b, n) > pyIndex(a, n) THEN pyIndex(b, n) - pyIndex(a, n) ELSE 0

\* chop_size = int(0.10*len(samples))
chop_size(n) == (10 * n) \div 100

\* len(subset), subset = samples[chop_size:-chop_size]
subsetLen(n) == pySliceLen(n, chop_size(n), -chop_size(n))

\* zscale raises IndexError at subset[i_midpoint] when subset is empty.
zscaleRaises(n) == subsetLen(n) = 0

---------------------------------------------------------------------------
(* zscale on concrete samples.  The input is the flattened array; a sample *)
(* is a value of Values or NaN.  The fit is computed exactly: the slope of *)
(* the least-squares line is slopeNum/slopeDen, the contrast is            *)
(* contrast4/4, and z1 and z2 are the fractions z1n/zden and z2n/zden.     *)

NaN == 0 - 1
Values == {0, 1}

\* samples[~np.isnan(samples)]
dropNaN(samples) == SelectSeq(samples, LAMBDA v : v # NaN)

\* Insertion of v into the ascending sequence s
RECURSIVE insert(_, _)
insert(s, v) ==
    IF s = <<>> THEN <<v>>
    ELSE IF v <= Head(s) THEN <<v>> \o s
    ELSE <<Head(s)>> \o insert(Tail(s), v)

\* samples.sort(): ascending
RECURSIVE sortLoop(_)
sortLoop(s) == IF s = <<>> THEN <<>> ELSE insert(sortLoop(Tail(s)), Head(s))

\* The samples left in the order they came (no samples.sort()).
sort_none(s) == s

sort(s) == sortLoop(s)

\* samples[a:b]
pySlice(s, a, b) == SubSeq(s, pyIndex(a, Len(s)) + 1, pyIndex(b, Len(s)))

\* subset = samples[chop_size:-chop_size]
trim(samples) == pySlice(samples, chop_size(Len(samples)), -chop_size(Len(samples)))

RECURSIVE sum(_)
sum(s) == IF s = <<>> THEN 0 ELSE Head(s) + sum(Tail(s))

\* np.polyfit(np.arange(len(subset)) - i_midpoint, subset, 1)[0], as the
\* fraction num/den of the normal equations.
polyfitSlope(subset, i_midpoint) ==
    LET m  == Len(subset)
        x  == [k \in 1..m |-> (k - 1) - i_midpoint]
        xy == [k \in 1..m |-> x[k] * subset[k]]
        xx == [k \in 1..m |-> x[k] * x[k]]
    IN  [num |-> m * sum(xy) - sum(x) * sum(subset),
         den |-> m * sum(xx) - sum(x) * sum(x)]

zscaleBody(input_img, contrast4) ==
    LET samples    == sort(dropNaN(input_img))
        subset     == trim(samples)
        i_midpoint == Len(subset) \div 2
        I_mid      == subset[i_midpoint + 1]
        fit        == polyfitSlope(subset, i_midpoint)
        zden       == fit.den * contrast4
    IN  IF i_midpoint + 1 > Len(subset)
        THEN [kind |-> "raised", exc |-> "IndexError", subset |-> subset]
        ELSE [kind |-> "ok", subset |-> subset,
              slopeNum |-> fit.num, slopeDen |-> fit.den,
              z1n  |-> I_mid * zden + 4 * fit.num * (1 - i_midpoint),
              z2n  |-> I_mid * zden + 4 * fit.num * (Len(subset) - i_midpoint),
              zden |-> zden]

---------------------------------------------------------------------------
(* The plotting backend.  A call's requests are gathered in a context:     *)
(* the figure made, the current subplot, the panels rendered, the accessors*)
(* called on the arguments, the warnings logged and the exception raised.  *)

NoCtx == [figure |-> <<>>, axes |-> <<>>, panels |-> <<>>, touched |-> {},
          warned |-> 0, raised |-> "none"]

DefaultWidth == 80       \* width=8, in tenths of an inch
DefaultHeight == 25      \* height=2.5, in tenths of an inch

touch(ctx, what) == [ctx EXCEPT !.touched = @ \cup {what}]

raise(ctx, exc) == [ctx EXCEPT !.raised = exc]

\* importMatplotlib(): plt says whether the import succeeds; a failure is
\* logged as a warning.
importMatplotlib(ctx, plt) ==
    IF plt THEN ctx ELSE [ctx EXCEPT !.warned = @ + 1]

\* plt.figure(figsize=size)
figure(ctx, size) == [ctx EXCEPT !.figure = size]

\* plt.subplot(nrows, ncols, index)
subplot(ctx, nrows, ncols, index) == [ctx EXCEPT !.axes = <<nrows, ncols, index>>]

figureHandle(ctx) == [kind |-> "figure", figsize |-> ctx.figure]

\* What a call hands back: its value, or the exception that ended it.
outcome(ctx, value) ==
    IF ctx.raised # "none" THEN [kind |-> "raised", exc |-> ctx.raised] ELSE value

\* display2dArray(arr, title, showBars, extent); arr is [name, n], n the
\* number of non-NaN samples.  The result is [ctx, ret].
display2dArrayBody(ctx, plt, arr, title, showBars, extent) ==
    LET c1 == importMatplotlib(ctx, plt)
        c2 == touch(c1, "zscale:" \o arr.name)
    IN  IF ~plt THEN [ctx |-> c1, ret |-> None]
        ELSE IF zscaleRaises(arr.n) THEN [ctx |-> raise(c2, "IndexError"), ret |-> None]
        ELSE [ctx |-> [c2 EXCEPT !.panels =
                          Append(@, [axes     |-> c2.axes,
                                     arr      |-> arr.name,
                                     title    |-> title,
                                     colorbar |-> showBars,
                                     extent   |-> extent])],
              ret |-> [kind |-> "image", arr |-> arr.name]]

\* plt.subplot(1, ncols, index) and display2dArray(...), unless an earlier
\* statement of the caller has raised.
panel(ctx, plt, ncols, index, arr, title, showBars, extent) ==
    IF ctx.raised # "none" THEN ctx
    ELSE display2dArrayBody(subplot(ctx, 1, ncols, index), plt, arr, title,
                            showBars, extent).ctx

\* The objects the display entry points are handed.
Arrays == { [name |-> "ramp", n |-> 100], [name |-> "tiny", n |-> 9],
            [name |-> "allnan", n |-> 0] }

Images == { [name |-> "imA", bbox |-> Box(0, 3, 0, 3), n |-> 16],
            [name |-> "imB", bbox |-> Box(1, 3, 0, 2), n |-> 9] }

MaskedImages == { [name |-> "miA", bbox |-> Box(0, 5, 0, 5), n |-> 36],
                  [name |-> "miB", bbox |-> Box(0, 2, 0, 2), n |-> 9] }

\* image.getArray()
getArray(image) == [name |-> image.name, n |-> image.n]

\* maskedImage.getArrays(): the data, mask and variance planes
getArrays(mi) == << [name |-> mi.name \o ".image", n |-> mi.n],
                    [name |-> mi.name \o ".mask", n |-> Area(mi.bbox)],
                    [name |-> mi.name \o ".variance", n |-> Area(mi.bbox)] >>

\* exposure.getMaskedImage()
getMaskedImage(e) == [name |-> e, bbox |-> Box(0, 5, 0, 5), n |-> 36]

\* exposure.getPsf().computeImage()
computePsfImage(e) == [name |-> e \o ".psf", bbox |-> Box(-2, 2, -2, 2), n |-> 25]

---------------------------------------------------------------------------
(* Footprints and the catalog *)

LightFootprint(fid, s) ==
    [fid |-> fid, heavy |-> FALSE, bbox |-> s.bbox, npix |-> s.npix, src |-> NoExposure]

\* afwDet.HeavyFootprintF(fp, exposure.getMaskedImage()): a new footprint
\* object of the same region, carrying the pixel values of exposure e.
HeavyFootprintF(fp, e, fid) ==
    [fid |-> fid, heavy |-> TRUE, bbox |-> fp.bbox, npix |-> fp.npix, src |-> e]

\* A heaviness test that never answers yes.
isHeavy_never(fp) == FALSE

isHeavy(fp) == fp.heavy

\* The loop body with the heavy footprint built but never stored in the
\* record (no source.setFootprint).
makeHeavyStep_noSet(st, i, e, verbose) ==
    LET fp == st.cat[i + 1].fp
    IN  IF ~isHeavy(fp)
        THEN [cat     |-> st.cat,
              next    |-> st.next + 1,
              printed |-> IF verbose
                          THEN Append(st.printed, <<i, "not heavy => heavy">>)
                          ELSE st.printed]
        ELSE st

\* The body of makeHeavyCatalog's loop for record i (0-based) of the
\* catalog: st is [cat, next, printed].
makeHeavyStep(st, i, e, verbose) ==
    LET source == st.cat[i + 1]
        fp     == source.fp
    IN  IF ~isHeavy(fp)
        THEN [cat     |-> [st.cat EXCEPT ![i + 1].fp = HeavyFootprintF(fp, e, st.next)],
              next    |-> st.next + 1,
              printed |-> IF verbose
                          THEN Append(st.printed, <<i, "not heavy => heavy">>)
                          ELSE st.printed]
        ELSE st

RECURSIVE makeHeavyLoop(_, _, _, _)
makeHeavyLoop(st, i, e, verbose) ==
    IF i >= Len(st.cat) THEN st
    ELSE makeHeavyLoop(makeHeavyStep(st, i, e, verbose), i + 1, e, verbose)

\* What makeHeavyCatalog hands back: the catalog object it was given.
makeHeavyReturn(st) == [kind |-> "catalog", ids |-> [k \in 1..Len(st.cat) |-> st.cat[k].id]]

makeHeavyCatalog ==
    \E e \in Exposures, verbose \in BOOLEAN :
        LET st == makeHeavyLoop([cat |-> catalog, next |-> nextFp, printed |-> <<>>],
                                0, e, verbose)
        IN  /\ catalog' = st.cat
            /\ nextFp' = st.next
            /\ out' = st.printed
            /\ ret' = makeHeavyReturn(st)
            /\ call' = [op |-> "makeHeavyCatalog", exposure |-> e, verbose |-> verbose]
            /\ fig' = NoCtx
            /\ UNCHANGED <<zin, zout>>

---------------------------------------------------------------------------
(* searchCatalog *)

\* The test of one record: bbox.contains(Point2D(x, y)), and when that
\* raises (floatOk is FALSE: the box takes no floating-point point),
\* bbox.contains(Point2I(int(x), int(y))).
searchTest(bbox, hx, hy, floatOk) ==
    IF floatOk THEN containsPoint2D(bbox, hx, hy)
    ELSE containsPoint2I(bbox, int(hx), int(hy))

RECURSIVE searchLoop(_, _, _, _, _)
searchLoop(cat, i, hx, hy, floatOk) ==
    IF i >= Len(cat) THEN [ret |-> None, printed |-> <<>>]
    ELSE IF searchTest(cat[i + 1].fp.bbox, hx, hy, floatOk)
         THEN [ret |-> [kind |-> "record", id |-> cat[i + 1].id], printed |-> << <<i>> >>]
         ELSE searchLoop(cat, i + 1, hx, hy, floatOk)

searchCatalog ==
    \E hx \in HalfX, hy \in HalfY, floatOk \in BOOLEAN :
        LET r == searchLoop(catalog, 0, hx, hy, floatOk)
        IN  /\ ret' = r.ret
            /\ out' = r.printed
            /\ call' = [op |-> "searchCatalog", hx |-> hx, hy |-> hy, floatOk |-> floatOk]
            /\ fig' = NoCtx
            /\ UNCHANGED <<catalog, nextFp, zin, zout>>

---------------------------------------------------------------------------
(* displayImages and displayImage *)

\* One turn of displayImages' loop: image number i (0-based) of items.
displayImagesStep(ctx, plt, items, i, showBars) ==
    LET image  == items[i + 1]
        c1     == touch(ctx, "getBBox:" \o image.name)
        extent == extentOf(image.bbox)
        c2     == touch(subplot(c1, 1, Len(items), i + 1), "getArray:" \o image.name)
    IN  display2dArrayBody(c2, plt, getArray(image), "Data", showBars, extent).ctx

RECURSIVE displayImagesLoop(_, _, _, _, _)
displayImagesLoop(ctx, plt, items, i, showBars) ==
    IF i >= Len(items) \/ ctx.raised # "none" THEN ctx
    ELSE displayImagesLoop(displayImagesStep(ctx, plt, items, i, showBars),
                           plt, items, i + 1, showBars)

\* displayImages(images, showBars, width, height).  images is a tuple
\* [kind |-> "tuple", items] or, when the caller passes an image where the
\* tuple belongs, that image itself; enumerate() of an image object either
\* raises or yields nothing, as iter says.
displayImagesBody(ctx, plt, images, showBars, width, height, iter) ==
    LET c1 == importMatplotlib(ctx, plt)
        c2 == figure(c1, <<width, height>>)
        c3 == IF images.kind = "tuple"
              THEN displayImagesLoop(c2, plt, images.items, 0, showBars)
              ELSE IF iter = "TypeError" THEN raise(c2, "TypeError") ELSE c2
    IN  IF ~plt THEN [ctx |-> c1, ret |-> None]
        ELSE [ctx |-> c3, ret |-> outcome(c3, figureHandle(c3))]

\* displayImage(image, showBars, width, height):
\*     return displayImages((image), showBars=True, width=8, height=2.5)
\* (image) is the image, not a tuple holding it.
displayImageBody(ctx, plt, image, showBars, width, height, iter) ==
    displayImagesBody(ctx, plt, [kind |-> "image", image |-> image], TRUE,
                      DefaultWidth, DefaultHeight, iter)

---------------------------------------------------------------------------
(* displayMaskedImage and displayExposure *)

displayMaskedImageBody(ctx, plt, mi, showMasks, showVariance, showBars, width, height) ==
    LET c1     == importMatplotlib(ctx, plt)
        c2     == touch(figure(c1, <<width, height>>), "getBBox:" \o mi.name)
        extent == extentOf(mi.bbox)
        ma     == getArrays(mi)
        c3     == touch(subplot(c2, 1, 3, 1), "getArrays:" \o mi.name)
        c4     == panel(c3, plt, 3, 1, ma[1], "Data", showBars, extent)
        c5     == IF showMasks THEN panel(c4, plt, 3, 2, ma[2], "Masks", showBars, extent)
                  ELSE c4
        c6     == IF showVariance
                  THEN panel(c5, plt, 3, 3, ma[3], "Variance", showBars, extent)
                  ELSE c5
    IN  IF ~plt THEN [ctx |-> c1, ret |-> None]
        ELSE [ctx |-> c6, ret |-> outcome(c6, figureHandle(c6))]

\* displayExposure: showVariance is not passed on; displayMaskedImage is
\* called with showVariance=not showPsf.
displayExposureBody(ctx, plt, e, showMasks, showVariance, showPsf, showBars, width, height) ==
    LET c1    == importMatplotlib(ctx, plt)
        r     == displayMaskedImageBody(touch(c1, "getMaskedImage:" \o e), plt,
                                        getMaskedImage(e), showMasks, ~showPsf,
                                        showBars, width, height)
        psfIm == computePsfImage(e)
        c2    == IF showPsf /\ r.ctx.raised = "none"
                 THEN panel(touch(touch(r.ctx, "getPsf:" \o e), "getBBox:" \o psfIm.name),
                            plt, 3, 3, getArray(psfIm), "PSF", showBars,
                            extentOf(psfIm.bbox))
                 ELSE r.ctx
    IN  IF ~plt THEN [ctx |-> c1, ret |-> None]
        ELSE [ctx |-> c2, ret |-> outcome(c2, r.ret)]

---------------------------------------------------------------------------
(* getHeavyFootprintSubimage and displayCutouts *)

\* A getBBox() that hands out the footprint's own box: grow enlarges it.
footprintAfterGrow_alias(fp, growBy) == [fp EXCEPT !.bbox = grow(fp.bbox, growBy)]

\* hfp.getBBox() hands out the box by value: bbox.grow(grow) enlarges the
\* caller's copy, and the footprint keeps the box it had.
footprintAfterGrow(fp, growBy) == fp

\* getHeavyFootprintSubimage(fp, badfill, grow): [image, raised, fp].  The
\* cast of a light footprint yields None, and hfp.getBBox() then raises.
\* The image is filled with badfill outside the footprint's pixels; fp is
\* the footprint as the call leaves it.
getHeavyFootprintSubimageBody(fp, badfill, growBy) ==
    LET bbox == IF growBy > 0 THEN grow(fp.bbox, growBy) ELSE fp.bbox
    IN  IF ~fp.heavy THEN [image |-> None, raised |-> "AttributeError", fp |-> fp]
        ELSE [image  |-> [name |-> "heavy:" \o fp.src, bbox |-> bbox,
                          n    |-> IF badfill = "nan" THEN fp.npix ELSE Area(bbox)],
              raised |-> "none",
              fp     |-> IF growBy > 0 THEN footprintAfterGrow(fp, growBy) ELSE fp]

\* The cutout of exposure e for footprint fp: the rectangle of the data
\* plane, or the subimage of a heavy footprint built for the occasion.
cutout(fp, e, asHeavyFootprint) ==
    IF ~asHeavyFootprint
    THEN [name |-> "crop:" \o e, bbox |-> fp.bbox, n |-> Area(fp.bbox)]
    ELSE getHeavyFootprintSubimageBody(HeavyFootprintF(fp, e, 0), "nan", 0).image

\* One of displayCutouts' three blocks: the cutout of e in subplot index.
cutoutPanel(ctx, plt, fp, e, asHeavyFootprint, index, title, extent) ==
    IF ctx.raised # "none" THEN ctx
    ELSE panel(touch(ctx, "getMaskedImage:" \o e), plt, 3, index,
               getArray(cutout(fp, e, asHeavyFootprint)), title, TRUE, extent)

\* displayCutouts reading the source's footprint before it probes for the
\* backend.
displayCutoutsBody_probeLate(ctx, plt, source, exposure, posImage, negImage, asHeavyFootprint, title, figsize) ==
    LET c1 == touch(touch(ctx, "getFootprint"), "getBBox:footprint")
        c2 == importMatplotlib(c1, plt)
    IN  [ctx |-> c2, ret |-> None]

displayCutoutsBody(ctx, plt, source, exposure, posImage, negImage, asHeavyFootprint, title, figsize) ==
    LET c1     == importMatplotlib(ctx, plt)
        fp     == source.fp
        c2     == touch(touch(c1, "getFootprint"), "getBBox:footprint")
        extent == extentOf(fp.bbox)
        c3     == figure(c2, figsize)
        c4     == cutoutPanel(c3, plt, fp, exposure, asHeavyFootprint, 1,
                              title \o " Diffim", extent)
        c5     == IF posImage # NoExposure
                  THEN cutoutPanel(c4, plt, fp, posImage, asHeavyFootprint, 2,
                                   title \o " Pos", extent)
                  ELSE c4
        c6     == IF negImage # NoExposure
                  THEN cutoutPanel(c5, plt, fp, negImage, asHeavyFootprint, 3,
                                   title \o " Neg", extent)
                  ELSE c5
    IN  IF ~plt THEN [ctx |-> c1, ret |-> None]
        ELSE [ctx |-> c6, ret |-> outcome(c6, figureHandle(c6))]

---------------------------------------------------------------------------
(* The calls *)

FigSizes == { <<DefaultWidth, DefaultHeight>>, <<40, 40>> }

ImageTuples == UNION { [1..k -> Images] : k \in 0..3 }

display2dArray ==
    \E plt \in BOOLEAN, arr \in Arrays, showBars \in BOOLEAN,
       extent \in { <<>>, <<0, 4, 0, 4>> } :
        LET r == display2dArrayBody(NoCtx, plt, arr, "Data", showBars, extent)
        IN  /\ fig' = r.ctx
            /\ ret' = outcome(r.ctx, r.ret)
            /\ call' = [op |-> "display2dArray", plt |-> plt, arr |-> arr,
                        showBars |-> showBars, extent |-> extent]
            /\ out' = <<>>
            /\ UNCHANGED <<catalog, nextFp, zin, zout>>

displayImages ==
    \E plt \in BOOLEAN, items \in ImageTuples, showBars \in BOOLEAN, size \in FigSizes :
        LET r == displayImagesBody(NoCtx, plt, [kind |-> "tuple", items |-> items],
                                   showBars, size[1], size[2], "none")
        IN  /\ fig' = r.ctx
            /\ ret' = r.ret
            /\ call' = [op |-> "displayImages", plt |-> plt, images |-> items,
                        showBars |-> showBars, width |-> size[1], height |-> size[2]]
            /\ out' = <<>>
            /\ UNCHANGED <<catalog, nextFp, zin, zout>>

displayImage ==
    \E plt \in BOOLEAN, image \in Images, showBars \in BOOLEAN, size \in FigSizes,
       iter \in {"TypeError", "empty"} :
        LET r == displayImageBody(NoCtx, plt, image, showBars, size[1], size[2], iter)
        IN  /\ fig' = r.ctx
            /\ ret' = r.ret
            /\ call' = [op |-> "displayImage", plt |-> plt, image |-> image,
                        showBars |-> showBars, width |-> size[1], height |-> size[2]]
            /\ out' = <<>>
            /\ UNCHANGED <<catalog, nextFp, zin, zout>>

displayMaskedImage ==
    \E plt \in BOOLEAN, mi \in MaskedImages, showMasks \in BOOLEAN,
       showVariance \in BOOLEAN, showBars \in BOOLEAN :
        LET r == displayMaskedImageBody(NoCtx, plt, mi, showMasks, showVariance,
                                        showBars, DefaultWidth, DefaultHeight)
        IN  /\ fig' = r.ctx
            /\ ret' = r.ret
            /\ call' = [op |-> "displayMaskedImage", plt |-> plt, maskedImage |-> mi,
                        showMasks |-> showMasks, showVariance |-> showVariance,
                        showBars |-> showBars]
            /\ out' = <<>>
            /\ UNCHANGED <<catalog, nextFp, zin, zout>>

displayExposure ==
    \E plt \in BOOLEAN, e \in Exposures, showMasks \in BOOLEAN,
       showVariance \in BOOLEAN, showPsf \in BOOLEAN, showBars \in BOOLEAN :
        LET r == displayExposureBody(NoCtx, plt, e, showMasks, showVariance, showPsf,
                                     showBars, DefaultWidth, DefaultHeight)
        IN  /\ fig' = r.ctx
            /\ ret' = r.ret
            /\ call' = [op |-> "displayExposure", plt |-> plt, exposure |-> e,
                        showMasks |-> showMasks, showVariance |-> showVariance,
                        showPsf |-> showPsf, showBars |-> showBars]
            /\ out' = <<>>
            /\ UNCHANGED <<catalog, nextFp, zin, zout>>

displayCutouts ==
    \E plt \in BOOLEAN, k \in 1..Len(catalog), posImage \in {NoExposure, "expB"},
       negImage \in {NoExposure, "expB"}, asHeavyFootprint \in BOOLEAN :
        LET r == displayCutoutsBody(NoCtx, plt, catalog[k], "expA", posImage, negImage,
                                    asHeavyFootprint, "src", <<DefaultWidth, DefaultHeight>>)
        IN  /\ fig' = r.ctx
            /\ ret' = r.ret
            /\ call' = [op |-> "displayCutouts", plt |-> plt, source |-> k,
                        exposure |-> "expA", posImage |-> posImage,
                        negImage |-> negImage, asHeavyFootprint |-> asHeavyFootprint,
                        title |-> "src"]
            /\ out' = <<>>
            /\ UNCHANGED <<catalog, nextFp, zin, zout>>

getHeavyFootprintSubimage ==
    \E k \in 1..Len(catalog), growBy \in {0, 1}, badfill \in {"nan", "zero"} :
        LET r == getHeavyFootprintSubimageBody(catalog[k].fp, badfill, growBy)
        IN  /\ fig' = raise(NoCtx, r.raised)
            /\ ret' = outcome(fig', [kind |-> "image", image |-> r.image])
            /\ call' = [op |-> "getHeavyFootprintSubimage", source |-> k,
                        badfill |-> badfill, grow |-> growBy]
            /\ out' = <<>>
            /\ catalog' = [catalog EXCEPT ![k].fp = r.fp]
            /\ UNCHANGED <<nextFp, zin, zout>>

---------------------------------------------------------------------------

\* The catalogs a caller may hold: record k has id k and footprint object
\* k, light or made heavy from exposure expA before the caller got it.
InitRecords(n) ==
    { c \in [1..n -> [id : 1..n,
                      fp : { LightFootprint(f, s) : f \in 1..n, s \in Shapes }
                           \cup { HeavyFootprintF(LightFootprint(f, s), "expA", f) :
                                    f \in 1..n, s \in Shapes }]] :
        \A k \in 1..n : c[k].id = k /\ c[k].fp.fid = k }

Init ==
    /\ \E n \in 0..MaxCat : catalog \in InitRecords(n)
    /\ nextFp = MaxCat + 1
    /\ call = [op |-> "none"]
    /\ ret = None
    /\ out = <<>>
    /\ fig = NoCtx
    /\ zin = None
    /\ zout = None

\* The catalog helpers, and the two calls that read a catalog's footprints.
Next ==
    \/ makeHeavyCatalog
    \/ searchCatalog
    \/ displayCutouts
    \/ getHeavyFootprintSubimage

Spec == Init /\ [][Next]_vars

\* The display entry points, for a caller holding one source record.
InitDisplay == Init /\ Len(catalog) = 1

NextDisplay ==
    \/ display2dArray
    \/ displayImage
    \/ displayImages
    \/ displayMaskedImage
    \/ displayExposure
    \/ displayCutouts

SpecDisplay == InitDisplay /\ [][NextDisplay]_vars

---------------------------------------------------------------------------
(* Properties of the catalog helpers (specification Spec) *)

AllHeavy(cat) == \A k \in 1..Len(cat) : cat[k].fp.heavy

RecordIds(cat) == [k \in 1..Len(cat) |-> cat[k].id]

\* C1: when makeHeavyCatalog returns, every record's footprint is heavy,
\* the value returned is the catalog that was passed in, and the catalog
\* holds the same records in the same order.
C1_MakeHeavyAllHeavySameCatalog ==
    [][call'.op = "makeHeavyCatalog" =>
          /\ AllHeavy(catalog')
          /\ RecordIds(catalog') = RecordIds(catalog)
          /\ ret' = [kind |-> "catalog", ids |-> RecordIds(catalog)]]_vars

\* A call of makeHeavyCatalog has upgraded both records of a two-record
\* catalog.
C1_Witness ==
    /\ call.op = "makeHeavyCatalog"
    /\ Len(catalog) = 2
    /\ AllHeavy(catalog)
    /\ catalog[1].fp.fid > MaxCat /\ catalog[2].fp.fid > MaxCat
    /\ ret.kind = "catalog"

\* C2: a call of makeHeavyCatalog directly after a call with the same
\* arguments replaces no footprint and prints nothing, so the catalog is as
\* the first call left it.
C2_MakeHeavyIdempotent ==
    [][(/\ call.op = "makeHeavyCatalog"
        /\ call'.op = "makeHeavyCatalog"
        /\ call'.exposure = call.exposure
        /\ call'.verbose = call.verbose) =>
          /\ catalog' = catalog
          /\ nextFp' = nextFp
          /\ out' = <<>>]_vars

\* A verbose call that printed nothing on a catalog an earlier call had
\* upgraded.
C2_Witness ==
    /\ call.op = "makeHeavyCatalog"
    /\ call.verbose
    /\ out = <<>>
    /\ Len(catalog) = 2
    /\ nextFp = MaxCat + 3

\* C3: no call turns a heavy footprint light or replaces it: a record
\* whose footprint is heavy holds that same footprint after any call; and
\* only makeHeavyCatalog changes the footprint a record holds.
C3_HeavinessOneWay ==
    [][/\ Len(catalog') = Len(catalog)
       /\ \A k \in 1..Len(catalog) :
              catalog[k].fp.heavy => catalog'[k].fp = catalog[k].fp
       /\ call'.op # "makeHeavyCatalog" => catalog' = catalog]_vars

\* getHeavyFootprintSubimage has grown the box of a footprint that
\* makeHeavyCatalog made heavy, and the record still holds that footprint.
C3_Witness ==
    /\ call.op = "getHeavyFootprintSubimage"
    /\ call.grow = 1
    /\ ret.kind = "image"
    /\ ret.image.bbox = grow(catalog[call.source].fp.bbox, 1)
    /\ catalog[call.source].fp.fid > MaxCat

\* The records of the catalog whose bounding box holds the point (x, y).
Containing(cat, hx, hy) ==
    { k \in 1..Len(cat) : containsPoint2D(cat[k].fp.bbox, hx, hy) }

Min(S) == CHOOSE k \in S : \A j \in S : k <= j

\* C4: searchCatalog returns the first record whose bounding box contains
\* the point (x, y) and prints its index; it returns None and prints
\* nothing when no record's bounding box contains the point.
C4_SearchFirstContaining ==
    call.op = "searchCatalog" =>
        LET hits == Containing(catalog, call.hx, call.hy)
        IN  IF hits = {} THEN ret = None /\ out = <<>>
            ELSE /\ ret = [kind |-> "record", id |-> catalog[Min(hits)].id]
                 /\ out = << <<Min(hits) - 1>> >>

\* The same, for the record the code's own test (the floating-point point,
\* or the truncated integer point when that test is not available) picks.
C4_SearchFirstByCodeTest ==
    call.op = "searchCatalog" =>
        LET hits == { k \in 1..Len(catalog) :
                        searchTest(catalog[k].fp.bbox, call.hx, call.hy, call.floatOk) }
        IN  IF hits = {} THEN ret = None /\ out = <<>>
            ELSE /\ ret = [kind |-> "record", id |-> catalog[Min(hits)].id]
                 /\ out = << <<Min(hits) - 1>> >>

\* The panels displayCutouts is to render, by title.
CutoutTitles(c) ==
    << c.title \o " Diffim" >>
    \o (IF c.posImage # NoExposure THEN << c.title \o " Pos" >> ELSE <<>>)
    \o (IF c.negImage # NoExposure THEN << c.title \o " Neg" >> ELSE <<>>)

PanelTitles(ctx) == [k \in 1..Len(ctx.panels) |-> ctx.panels[k].title]

\* C7: displayCutouts renders one panel per exposure supplied, in the
\* order Diffim, Pos, Neg, each titled with the prefix and the panel name,
\* each with the footprint's bounding box as its extent.
C7_CutoutPanels ==
    (call.op = "displayCutouts" /\ call.plt) =>
        /\ PanelTitles(fig) = CutoutTitles(call)
        /\ \A k \in 1..Len(fig.panels) :
               fig.panels[k].extent = extentOf(catalog[call.source].fp.bbox)

\* The same, for the calls in which no statement raised.
C7_CutoutPanelsUnlessRaised ==
    (call.op = "displayCutouts" /\ call.plt /\ fig.raised = "none") =>
        /\ PanelTitles(fig) = CutoutTitles(call)
        /\ \A k \in 1..Len(fig.panels) :
               fig.panels[k].extent = extentOf(catalog[call.source].fp.bbox)

---------------------------------------------------------------------------
(* Properties of the display entry points (specification SpecDisplay) *)

DisplayOps == {"display2dArray", "displayImage", "displayImages",
               "displayMaskedImage", "displayExposure", "displayCutouts"}

\* C5: when importMatplotlib returns False, a display entry point returns
\* None without raising, renders nothing and calls nothing on its image,
\* exposure or source arguments (no zscale, no getBBox, no getFootprint).
C5_NoBackendNoOp ==
    (call.op \in DisplayOps /\ ~call.plt) =>
        /\ ret = None
        /\ fig.raised = "none"
        /\ fig.figure = <<>> /\ fig.axes = <<>> /\ fig.panels = <<>>
        /\ fig.touched = {}

\* Each entry point has been called without a backend (each logs the
\* failed import); the six are told apart by the call recorded.
C5_Witness ==
    /\ call.op = "displayCutouts"
    /\ ~call.plt
    /\ fig.warned = 1
    /\ ret = None

\* The panels displayExposure is to render, by title.
ExposureTitles(c) ==
    << "Data" >>
    \o (IF c.showMasks THEN << "Masks" >> ELSE <<>>)
    \o (IF c.showPsf THEN << "PSF" >>
        ELSE IF c.showVariance THEN << "Variance" >> ELSE <<>>)

\* C6: displayExposure renders the data panel always, the mask panel
\* exactly when showMasks, and as third panel the PSF image when showPsf,
\* the variance plane when showVariance and not showPsf, nothing when both
\* are false.
C6_ExposurePanels ==
    (call.op = "displayExposure" /\ call.plt) =>
        PanelTitles(fig) = ExposureTitles(call)

\* What the code renders instead: the variance plane whenever showPsf is
\* false, whatever showVariance says.
C6_ExposurePanelsOfCode ==
    (call.op = "displayExposure" /\ call.plt) =>
        PanelTitles(fig) =
            << "Data" >>
            \o (IF call.showMasks THEN << "Masks" >> ELSE <<>>)
            \o (IF call.showPsf THEN << "PSF" >> ELSE << "Variance" >>)

\* C10: displayImage(image, showBars, width, height) does what
\* displayImages does on the one-element sequence holding that image, with
\* the same showBars, width and height.
C10_DisplayImageIsDisplayImagesOfOne ==
    call.op = "displayImage" =>
        LET r == displayImagesBody(NoCtx, call.plt,
                                   [kind |-> "tuple", items |-> <<call.image>>],
                                   call.showBars, call.width, call.height, "none")
        IN  fig = r.ctx /\ ret = r.ret

---------------------------------------------------------------------------
(* zscale called on its own *)

\* Contrasts 0.25 (the default) and 1.0, in quarters.
Contrasts == {1, 4}

zscale ==
    /\ zout = None
    /\ zout' = zscaleBody(zin.input_img, zin.contrast4)
    /\ call' = [op |-> "zscale"]
    /\ UNCHANGED <<catalog, nextFp, ret, out, fig, zin>>

InitZscale ==
    /\ \E n \in 0..MaxLen, c \in Contrasts :
          \E a \in [1..n -> Values \cup {NaN}] :
              zin = [input_img |-> a, contrast4 |-> c]
    /\ zout = None
    /\ catalog = <<>>
    /\ nextFp = 1
    /\ call = [op |-> "none"]
    /\ ret = None
    /\ out = <<>>
    /\ fig = NoCtx

NextZscale == zscale

SpecZscale == InitZscale /\ [][NextZscale]_vars

---------------------------------------------------------------------------
(* Properties of zscale (specification SpecZscale) *)

ValidSamples == dropNaN(zin.input_img)

Finite == \A k \in 1..Len(zin.input_img) : zin.input_img[k] # NaN

NonConstant == \E j, k \in 1..Len(zin.input_img) : zin.input_img[j] # zin.input_img[k]

C9_SymmetricTrim ==
    (zout.kind # "None" /\ Len(ValidSamples) >= 1) =>
        LET n == Len(ValidSamples)
            c == n \div 10
        IN  /\ Len(zout.subset) = n - 2 * c
            /\ zout.subset = SubSeq(sortLoop(ValidSamples), c + 1, n - c)

\* The same for n >= 10, where 10% of n is at least one sample.
C9_SymmetricTrimFromTen ==
    (zout.kind # "None" /\ Len(ValidSamples) >= 10) =>
        LET n == Len(ValidSamples)
            c == n \div 10
        IN  /\ Len(zout.subset) = n - 2 * c
            /\ zout.subset = SubSeq(sortLoop(ValidSamples), c + 1, n - c)

====
